---- MODULE Spec2Model ----
(***************************************************************************)
(* ModelVerse chat client: the chat state controller (ChatInterface) and   *)
(* the prompt relay flow (relayUserPromptFlow).                            *)
(*                                                                         *)
(* JavaScript values that may be undefined, null, a string or a number are *)
(* tagged records; a string is a sequence of tokens, " " being the         *)
(* whitespace token, so that trim() is computed and not assumed.           *)
(***************************************************************************)
EXTENDS Integers, Sequences, FiniteSets, TLC

\* ------------------------------------------------------------------ bounds
\* longest history array handed to the flow in FlowSpec
MaxHist == 2

\* crypto.randomUUID() calls explored
MaxIds == 4

\* messages in a chat file that a conversation is continued from
MaxLog == 3

\* ------------------------------------------------------- JavaScript values
U == [t |-> "undefined"]
Null == [t |-> "null"]
Str(s) == [t |-> "string", v |-> s]
Num(n) == [t |-> "number", v |-> n]
Arr(s) == [t |-> "array", v |-> s]

IsString(x) == x.t = "string"

\* JavaScript truthiness of a tagged value
Truthy(x) ==
  CASE x.t = "string" -> x.v # <<>>
    [] x.t = "number" -> x.v # 0
    [] x.t \in {"array", "object", "file"} -> TRUE
    [] OTHER -> FALSE

EmptyFcn == [k \in {} |-> U]

\* String.prototype.trim on a token sequence
RECURSIVE TrimStart(_)
TrimStart(s) ==
  IF s # <<>> /\ Head(s) = " " THEN TrimStart(Tail(s)) ELSE s

RECURSIVE TrimEnd(_)
TrimEnd(s) ==
  IF s # <<>> /\ s[Len(s)] = " " THEN TrimEnd(SubSeq(s, 1, Len(s) - 1)) ELSE s

Trim(s) == TrimEnd(TrimStart(s))

\* ---------------------------------------------------------- the relay flow
TEXT_ONLY_MODELS ==
  {"openai/gpt-3.5-turbo", "openai/grok-3", "anthropic/claude-3-haiku-20240307"}

RefusalResponse ==
  <<"The selected model does not support images. Please provide a text prompt or select a different model.">>

EmptyPromptResponse == <<"Please provide a prompt.">>

DefaultCaption == <<"Describe this image.">>

isTextOnlyModel(model) == model \in TEXT_ONLY_MODELS

\* z.string().optional()
OptionalString(x) == x.t \in {"string", "undefined"}

ChatTurnSchema(turn) ==
  /\ turn.role \in {"user", "model"}
  /\ OptionalString(turn.text)
  /\ OptionalString(turn.photoDataUri)

RelayUserPromptInputSchema(input) ==
  /\ OptionalString(input.prompt)
  /\ OptionalString(input.photoDataUri)
  /\ \/ input.history.t = "undefined"
     \/ /\ input.history.t = "array"
        /\ \A i \in 1..Len(input.history.v) : ChatTurnSchema(input.history.v[i])

RelayUserPromptOutputSchema(output) == IsString(output.response)

\* currentPromptText?.trim()
trimmedCurrentPromptText(input) ==
  IF IsString(input.prompt) THEN Str(Trim(input.prompt.v)) ELSE U

\* mutant: the image is stripped for every model
finalPhotoDataUriForCurrentPrompt_stripAlways(input) ==
  IF Truthy(input.photoDataUri) THEN U ELSE input.photoDataUri

\* the current image after the text-only filter
finalPhotoDataUriForCurrentPrompt(input) ==
  IF isTextOnlyModel(input.model) /\ Truthy(input.photoDataUri)
  THEN U
  ELSE input.photoDataUri

\* mutant: an image in history is refused like an image of the current turn
RefusesImage_historyToo(input) ==
  /\ isTextOnlyModel(input.model)
  /\ ~Truthy(trimmedCurrentPromptText(input))
  /\ \/ Truthy(input.photoDataUri)
     \/ /\ Truthy(input.history)
        /\ \E i \in 1..Len(input.history.v) :
             Truthy(input.history.v[i].photoDataUri)

\* mutant: the refusal tests the prompt as typed, not trimmed
RefusesImage_untrimmed(input) ==
  /\ isTextOnlyModel(input.model)
  /\ Truthy(input.photoDataUri)
  /\ ~Truthy(input.prompt)

\* the early return for an image-only prompt to a text-only model
RefusesImage(input) ==
  /\ isTextOnlyModel(input.model)
  /\ Truthy(input.photoDataUri)
  /\ ~Truthy(trimmedCurrentPromptText(input))

\* mutant: history images are kept for text-only models too
historicalTurnContentParts_keepImage(turn, textOnly) ==
  (IF Truthy(turn.text) /\ Trim(turn.text.v) # <<>>
   THEN <<[text |-> Trim(turn.text.v)]>> ELSE <<>>)
  \o
  (IF Truthy(turn.photoDataUri)
   THEN <<[media |-> [url |-> turn.photoDataUri.v]]>> ELSE <<>>)

\* the parts of one history turn
historicalTurnContentParts(turn, textOnly) ==
  (IF Truthy(turn.text) /\ Trim(turn.text.v) # <<>>
   THEN <<[text |-> Trim(turn.text.v)]>> ELSE <<>>)
  \o
  (IF Truthy(turn.photoDataUri) /\ ~textOnly
   THEN <<[media |-> [url |-> turn.photoDataUri.v]]>> ELSE <<>>)

\* mutant: the kept turns are collected in reverse order
RECURSIVE pastMessagesLoop_reversed(_, _)
pastMessagesLoop_reversed(turns, textOnly) ==
  IF turns = <<>> THEN <<>>
  ELSE LET parts == historicalTurnContentParts(Head(turns), textOnly)
       IN pastMessagesLoop_reversed(Tail(turns), textOnly)
          \o (IF Len(parts) > 0
              THEN <<[role |-> Head(turns).role, content |-> parts]>>
              ELSE <<>>)

\* the loop over pastHistoryTurns
RECURSIVE pastMessagesLoop(_, _)
pastMessagesLoop(turns, textOnly) ==
  IF turns = <<>> THEN <<>>
  ELSE LET parts == historicalTurnContentParts(Head(turns), textOnly)
       IN (IF Len(parts) > 0
           THEN <<[role |-> Head(turns).role, content |-> parts]>>
           ELSE <<>>)
          \o pastMessagesLoop(Tail(turns), textOnly)

pastMessagesForAI(input) ==
  IF Truthy(input.history)
  THEN pastMessagesLoop(input.history.v, isTextOnlyModel(input.model))
  ELSE <<>>

\* mutant: the default caption replaces every empty prompt
effectiveCurrentPromptText_alwaysDefault(input) ==
  LET trimmed == trimmedCurrentPromptText(input)
  IN IF Truthy(trimmed) THEN trimmed.v ELSE DefaultCaption

effectiveCurrentPromptText(input) ==
  LET trimmed == trimmedCurrentPromptText(input)
      photo == finalPhotoDataUriForCurrentPrompt(input)
  IN IF Truthy(trimmed) THEN trimmed.v
     ELSE IF Truthy(photo) /\ ~Truthy(trimmed) THEN DefaultCaption
     ELSE <<>>

currentPromptPartsForAI(input) ==
  LET photo == finalPhotoDataUriForCurrentPrompt(input)
      text == effectiveCurrentPromptText(input)
  IN (IF text # <<>> THEN <<[text |-> text]>> ELSE <<>>)
     \o
     (IF Truthy(photo) THEN <<[media |-> [url |-> photo.v]]>> ELSE <<>>)

\* mutant: the messages key is always set
generateOptionsFor_alwaysMessages(input) ==
  [model |-> input.model, prompt |-> currentPromptPartsForAI(input),
   messages |-> pastMessagesForAI(input)]

\* the GenerateOptions object: the messages key exists only with history
generateOptionsFor(input) ==
  [model |-> input.model, prompt |-> currentPromptPartsForAI(input)]
  @@ (IF Len(pastMessagesForAI(input)) > 0
      THEN [messages |-> pastMessagesForAI(input)]
      ELSE EmptyFcn)

\* mutant: the empty-request test looks at the input history, not the
\* normalized one
relayUserPromptFlow_rawHistory(input) ==
  IF RefusesImage(input)
  THEN [kind |-> "return", response |-> Str(RefusalResponse)]
  ELSE IF Len(currentPromptPartsForAI(input)) = 0
          /\ (~Truthy(input.history) \/ Len(input.history.v) = 0)
  THEN [kind |-> "return", response |-> Str(EmptyPromptResponse)]
  ELSE [kind |-> "generate", options |-> generateOptionsFor(input)]

\* the synchronous part of the flow body: a canned return or a provider call
relayUserPromptFlow(input) ==
  IF RefusesImage(input)
  THEN [kind |-> "return", response |-> Str(RefusalResponse)]
  ELSE IF Len(currentPromptPartsForAI(input)) = 0
          /\ Len(pastMessagesForAI(input)) = 0
  THEN [kind |-> "return", response |-> Str(EmptyPromptResponse)]
  ELSE [kind |-> "generate", options |-> generateOptionsFor(input)]

\* ------------------------------------------------------------------- state
VARIABLES
  messages,             \* useState<Message[]>: the log
  inputValue,           \* the draft text
  selectedModel,
  isLoading,            \* the in-flight flag
  selectedFile,         \* the attached image File, or Null
  imagePreview,         \* the attached image's data URI, or Null
  editingMessageId,     \* the edit target, or Null
  modelConfig,          \* the saved sampling configuration
  tempModelConfig,      \* the settings dialog's working copy
  isSettingsModalOpen,
  imageReaders,         \* image files whose FileReader has not fired onloadend
  uploadReaders,        \* chat files whose FileReader has not fired onload/onerror
  handler,              \* the suspended handleSendMessage call, or NoHandler
  inFlightCalls,        \* relayUserPrompt calls that have not settled
  flowPc,               \* where the relayUserPrompt call is
  flowInput,            \* the argument of the last relayUserPrompt call
  generateOptions,      \* the argument of that call's ai.generate, or NoCall
  flowResult,           \* how that call settled
  nextId                \* crypto.randomUUID() calls so far

uiVars ==
  <<messages, inputValue, selectedModel, isLoading, selectedFile, imagePreview,
    editingMessageId, modelConfig, tempModelConfig, isSettingsModalOpen,
    imageReaders, uploadReaders, handler, inFlightCalls, nextId>>

flowVars == <<flowPc, flowInput, generateOptions, flowResult>>

vars == <<uiVars, flowVars>>

NoHandler == [t |-> "none"]
NoCall == [t |-> "nocall"]
NoResult == [t |-> "noresult"]
NoFile == [t |-> "nofile"]

\* the n-th value of crypto.randomUUID(): pairwise distinct strings
randomUUID(n) == [i \in 1..(n + 1) |-> "u"]

initialSystemMessage ==
  <<"Welcome to ModelVerse! Select a model, type a message, or upload an image to start chatting.">>

clearedSystemMessage ==
  <<"Chat cleared. Select a model and send a message to start a new conversation.">>

loadedSystemMessage ==
  <<"Chat history loaded. Continue the conversation or start a new one.">>

\* only the models the model's user picks among
availableModels == {"googleai/gemini-1.5-flash-latest", "openai/gpt-3.5-turbo"}

ConfigKeys == {"maxOutputTokens", "temperature", "topP", "topK"}

EmptyConfig == [k \in ConfigKeys |-> U]

UiInit ==
  /\ messages = <<[id |-> randomUUID(0), sender |-> "system",
                   text |-> initialSystemMessage, imageUrl |-> U]>>
  /\ inputValue = <<>>
  /\ selectedModel = "googleai/gemini-1.5-flash-latest"
  /\ isLoading = FALSE
  /\ selectedFile = Null
  /\ imagePreview = Null
  /\ editingMessageId = Null
  /\ modelConfig = EmptyConfig
  /\ tempModelConfig = EmptyConfig
  /\ isSettingsModalOpen = FALSE
  /\ imageReaders = {}
  /\ uploadReaders = {}
  /\ handler = NoHandler
  /\ inFlightCalls = 0
  /\ nextId = 1

\* ------------------------------------------- the relayUserPrompt call (server)
\* what the provider answers: a text, or a result without text
ProviderTexts == {Str(<<"pong">>), U}

\* the messages of the errors the call can fail with
ProviderErrors == {<<"provider unavailable">>}

SchemaError == <<"Schema validation failed.">>

\* the flow body up to its first await: input validation, then a canned
\* return or the provider call
RunFlow ==
  /\ flowPc = "called"
  /\ IF ~RelayUserPromptInputSchema(flowInput)
     THEN /\ flowPc' = "settled"
          /\ flowResult' = [ok |-> FALSE, message |-> SchemaError]
          /\ generateOptions' = NoCall
     ELSE LET r == relayUserPromptFlow(flowInput)
          IN IF r.kind = "return"
             THEN /\ flowPc' = "settled"
                  /\ flowResult' = [ok |-> TRUE, response |-> r.response.v]
                  /\ generateOptions' = NoCall
             ELSE /\ flowPc' = "awaiting"
                  /\ flowResult' = NoResult
                  /\ generateOptions' = r.options
  /\ UNCHANGED <<flowInput, uiVars>>

\* mutant: a missing text is returned as the empty response
ProviderResolve_emptyOnMissing ==
  /\ flowPc = "awaiting"
  /\ \E text \in ProviderTexts :
       flowResult' =
         [ok |-> TRUE, response |-> IF IsString(text) THEN text.v ELSE <<>>,
          text |-> text]
  /\ flowPc' = "settled"
  /\ UNCHANGED <<flowInput, generateOptions, uiVars>>

\* ai.generate resolves; {response: text!} is checked against the output
\* schema; the result keeps the text the provider gave
ProviderResolve ==
  /\ flowPc = "awaiting"
  /\ \E text \in ProviderTexts :
       flowResult' =
         IF RelayUserPromptOutputSchema([response |-> text])
         THEN [ok |-> TRUE, response |-> text.v, text |-> text]
         ELSE [ok |-> FALSE, message |-> SchemaError, text |-> text]
  /\ flowPc' = "settled"
  /\ UNCHANGED <<flowInput, generateOptions, uiVars>>

\* ai.generate throws
ProviderReject ==
  /\ flowPc = "awaiting"
  /\ \E e \in ProviderErrors : flowResult' = [ok |-> FALSE, message |-> e]
  /\ flowPc' = "settled"
  /\ UNCHANGED <<flowInput, generateOptions, uiVars>>

\* ------------------------------------- the flow alone, over bounded inputs
FlowPrompts == {U, Str(<<>>), Str(<<" ">>), Str(<<" ", "hi", " ">>)}

FlowPhotos == {U, Null, Str(<<>>), Str(<<"data:img1">>)}

FlowModels ==
  {"googleai/gemini-1.5-flash-latest", "openai/gpt-3.5-turbo", "openai/grok-3"}

FlowTurns ==
  [role : {"user", "model"},
   text : {U, Str(<<>>), Str(<<" ">>), Str(<<"a", " ">>), Str(<<"b">>)},
   photoDataUri : {U, Str(<<"data:old">>)}]

SeqsUpTo(S, n) == UNION {[1..k -> S] : k \in 0..n}

FlowHistories == {U} \cup {Arr(h) : h \in SeqsUpTo(FlowTurns, MaxHist)}

FlowInputs ==
  [prompt : FlowPrompts, photoDataUri : FlowPhotos, model : FlowModels,
   history : FlowHistories, modelConfig : {U}]

FlowInit ==
  /\ UiInit
  /\ flowInput \in FlowInputs
  /\ flowPc = "called"
  /\ generateOptions = NoCall
  /\ flowResult = NoResult

FlowNext == RunFlow \/ ProviderResolve \/ ProviderReject

FlowSpec == FlowInit /\ [][FlowNext]_vars

\* ------------------------------------------------ the chat state controller
\* an attached image file: its size in bytes and what readAsDataURL yields
ImageFiles ==
  {[t |-> "file", size |-> 1024, dataUri |-> <<"data:img1">>],
   [t |-> "file", size |-> 4 * 1024 * 1024 + 1, dataUri |-> <<"data:big">>]}

\* the 4MB limit of handleFileChange
MaxImageSize == 4194304

\* what the user types into the textarea
InputTexts == {<<>>, <<" ">>, <<" ", "hi">>}

Obj(f) == [t |-> "object", v |-> f]

\* obj[key], undefined when the key is absent
Get(f, key) == IF key \in DOMAIN f THEN f[key] ELSE U

\* mutant: the last match, as findLastIndex gives it
findIndex_last(msgs, id) ==
  IF \E i \in 1..Len(msgs) : Str(msgs[i].id) = id
  THEN CHOOSE i \in 1..Len(msgs) :
         /\ Str(msgs[i].id) = id
         /\ \A j \in (i + 1)..Len(msgs) : Str(msgs[j].id) # id
  ELSE 0

\* Array.prototype.findIndex(msg => msg.id === id), 1-based; 0 stands for -1
findIndex(msgs, id) ==
  IF \E i \in 1..Len(msgs) : Str(msgs[i].id) = id
  THEN CHOOSE i \in 1..Len(msgs) :
         /\ Str(msgs[i].id) = id
         /\ \A j \in 1..(i - 1) : Str(msgs[j].id) # id
  ELSE 0

isChatSender(msg) == msg.sender = "user" \/ msg.sender = "ai"

\* the .map() of historyForAI
chatTurnOf(msg) ==
  [role |-> IF msg.sender = "user" THEN "user" ELSE "model",
   text |-> IF Trim(msg.text) = <<>> /\ Truthy(msg.imageUrl)
            THEN U ELSE Str(Trim(msg.text)),
   photoDataUri |-> msg.imageUrl]

turnHasContent(turn) == Truthy(turn.text) \/ Truthy(turn.photoDataUri)

\* mutant: without the filter on the sender
historyForAI_allSenders(msgs) ==
  SelectSeq([i \in 1..Len(msgs) |-> chatTurnOf(msgs[i])], turnHasContent)

\* messages.filter(user or ai).map(...).filter(text or photo)
historyForAI(msgs) ==
  LET chat == SelectSeq(msgs, isChatSender)
  IN SelectSeq([i \in 1..Len(chat) |-> chatTurnOf(chat[i])], turnHasContent)

\* flowConfig: only the keys that are set
flowConfig(config) ==
  [k \in {key \in DOMAIN config : config[key] # U} |-> config[k]]

\* the RelayUserPromptInput built by handleSendMessage
relayInput(promptText, promptImage, model, history, config) ==
  [prompt |-> Str(promptText),
   model |-> model,
   history |-> Arr(history),
   modelConfig |-> IF DOMAIN flowConfig(config) # {}
                   THEN Obj(flowConfig(config)) ELSE U,
   photoDataUri |-> IF Truthy(promptImage) THEN promptImage ELSE U]

\* x || undefined
orUndefined(x) == IF Truthy(x) THEN x ELSE U

\* x || null
orNull(x) == IF Truthy(x) THEN x ELSE Null

\* ids left for crypto.randomUUID(), one kept for the reply of a running handler
IdsFree == MaxIds - nextId - (IF handler # NoHandler THEN 1 ELSE 0)

\* the settings dialog is modal: the page behind it takes no input
PageUsable == ~isSettingsModalOpen

\* the textarea's onChange (disabled while loading)
SetInputValue ==
  /\ PageUsable /\ ~isLoading
  /\ \E value \in InputTexts : inputValue' = value
  /\ inputValue' # inputValue
  /\ UNCHANGED <<messages, selectedModel, isLoading, selectedFile, imagePreview,
                 editingMessageId, modelConfig, tempModelConfig,
                 isSettingsModalOpen, imageReaders, uploadReaders, handler,
                 inFlightCalls, nextId, flowVars>>

\* the model Select's onValueChange (disabled while loading or editing)
SelectModel ==
  /\ PageUsable /\ ~isLoading /\ ~Truthy(editingMessageId)
  /\ \E m \in availableModels : selectedModel' = m
  /\ selectedModel' # selectedModel
  /\ UNCHANGED <<messages, inputValue, isLoading, selectedFile, imagePreview,
                 editingMessageId, modelConfig, tempModelConfig,
                 isSettingsModalOpen, imageReaders, uploadReaders, handler,
                 inFlightCalls, nextId, flowVars>>

\* handleFileChange (the attach button is disabled while loading)
handleFileChange ==
  /\ PageUsable /\ ~isLoading
  /\ \E file \in ImageFiles \cup {U} :
       IF file = U
       THEN /\ selectedFile' = Null
            /\ imagePreview' = Null
            /\ UNCHANGED imageReaders
       ELSE IF file.size > MaxImageSize
       THEN UNCHANGED <<selectedFile, imagePreview, imageReaders>>
       ELSE /\ selectedFile' = file
            /\ imageReaders' = imageReaders \cup {file}
            /\ UNCHANGED imagePreview
  /\ UNCHANGED <<messages, inputValue, selectedModel, isLoading,
                 editingMessageId, modelConfig, tempModelConfig,
                 isSettingsModalOpen, uploadReaders, handler, inFlightCalls,
                 nextId, flowVars>>

\* reader.onloadend of handleFileChange, after a read that succeeded
imageReaderOnLoadEnd ==
  /\ \E file \in imageReaders :
       /\ imageReaders' = imageReaders \ {file}
       /\ imagePreview' = Str(file.dataUri)
  /\ UNCHANGED <<messages, inputValue, selectedModel, isLoading, selectedFile,
                 editingMessageId, modelConfig, tempModelConfig,
                 isSettingsModalOpen, uploadReaders, handler, inFlightCalls,
                 nextId, flowVars>>

\* removeImage, from the preview's X button (shown while a preview exists)
removeImage ==
  /\ PageUsable /\ Truthy(imagePreview)
  /\ selectedFile' = Null
  /\ imagePreview' = Null
  /\ UNCHANGED <<messages, inputValue, selectedModel, isLoading,
                 editingMessageId, modelConfig, tempModelConfig,
                 isSettingsModalOpen, imageReaders, uploadReaders, handler,
                 inFlightCalls, nextId, flowVars>>

\* handleInitiateEdit, from the pencil of a user message
handleInitiateEdit ==
  /\ PageUsable
  /\ \E i \in 1..Len(messages) :
       /\ messages[i].sender = "user"
       /\ messages[i].id # <<>>
       /\ LET messageId == Str(messages[i].id)
              messageToEdit == messages[findIndex(messages, messageId)]
          IN /\ messageToEdit.sender = "user"
             /\ editingMessageId' = messageId
             /\ inputValue' = messageToEdit.text
             /\ imagePreview' = orNull(messageToEdit.imageUrl)
             /\ selectedFile' = Null
  /\ UNCHANGED <<messages, selectedModel, isLoading, modelConfig,
                 tempModelConfig, isSettingsModalOpen, imageReaders,
                 uploadReaders, handler, inFlightCalls, nextId,
                 flowVars>>

\* cancelEdit (the button exists while editing and is disabled while loading)
cancelEdit ==
  /\ PageUsable /\ Truthy(editingMessageId) /\ ~isLoading
  /\ editingMessageId' = Null
  /\ inputValue' = <<>>
  /\ selectedFile' = Null
  /\ imagePreview' = Null
  /\ UNCHANGED <<messages, selectedModel, isLoading, modelConfig,
                 tempModelConfig, isSettingsModalOpen, imageReaders,
                 uploadReaders, handler, inFlightCalls, nextId,
                 flowVars>>

\* mutant: the guard without its isLoading test
sendReturnsEarly_ignoresLoading ==
  /\ Trim(inputValue) = <<>>
  /\ ~Truthy(selectedFile)
  /\ ~Truthy(imagePreview)
  /\ ~Truthy(editingMessageId)

\* the first line of handleSendMessage: nothing to send, or a request in flight
sendReturnsEarly ==
  \/ /\ Trim(inputValue) = <<>>
     /\ ~Truthy(selectedFile)
     /\ ~Truthy(imagePreview)
     /\ ~Truthy(editingMessageId)
  \/ isLoading

\* handleSendMessage up to its await
handleSendMessage ==
  /\ PageUsable
  /\ ~sendReturnsEarly
  /\ LET currentUserInputText == Trim(inputValue)
         currentUserImagePreview == imagePreview
         editIndex == findIndex(messages, editingMessageId)
         messagesUpToEdit == SubSeq(messages, 1, editIndex - 1)
     IN IF Truthy(editingMessageId) /\ editIndex = 0
        THEN /\ isLoading' = FALSE
             /\ editingMessageId' = Null
             /\ UNCHANGED <<messages, inputValue, handler, inFlightCalls,
                            nextId, flowVars>>
        ELSE /\ IdsFree >= (IF Truthy(editingMessageId) THEN 1 ELSE 2)
             /\ isLoading' = TRUE
             /\ IF Truthy(editingMessageId)
                THEN /\ messages' = messagesUpToEdit \o
                          <<[messages[editIndex] EXCEPT
                               !.text = currentUserInputText,
                               !.imageUrl = orUndefined(currentUserImagePreview)]>>
                     /\ flowInput' = relayInput(currentUserInputText,
                          currentUserImagePreview, selectedModel,
                          historyForAI(messagesUpToEdit), modelConfig)
                     /\ UNCHANGED nextId
                ELSE /\ messages' = messages \o
                          <<[id |-> randomUUID(nextId), sender |-> "user",
                             text |-> currentUserInputText,
                             imageUrl |-> orUndefined(currentUserImagePreview)]>>
                     /\ flowInput' = relayInput(currentUserInputText,
                          currentUserImagePreview, selectedModel,
                          historyForAI(messages), modelConfig)
                     /\ nextId' = nextId + 1
             /\ inputValue' = <<>>
             /\ handler' = [editingMessageId |-> editingMessageId,
                            messages |-> messages,
                            modelConfig |-> modelConfig]
             /\ inFlightCalls' = inFlightCalls + 1
             /\ flowPc' = "called"
             /\ generateOptions' = NoCall
             /\ flowResult' = NoResult
             /\ UNCHANGED editingMessageId
  /\ UNCHANGED <<selectedModel, selectedFile, imagePreview, modelConfig,
                 tempModelConfig, isSettingsModalOpen, imageReaders,
                 uploadReaders>>

\* the reply message: an ai message, or the catch block's system message
replyMessage(result, id) ==
  IF result.ok
  THEN [id |-> id, sender |-> "ai", text |-> result.response, imageUrl |-> U]
  ELSE [id |-> id, sender |-> "system",
        text |-> <<"Error: ">> \o result.message, imageUrl |-> U]

\* mutant: outside an edit the reply takes the place of the last message
withReply_replacesLast(prevMessages, editing, reply) ==
  IF Truthy(editing) /\ findIndex(prevMessages, editing) # 0
  THEN SubSeq(prevMessages, 1, findIndex(prevMessages, editing)) \o <<reply>>
  ELSE SubSeq(prevMessages, 1, Len(prevMessages) - 1) \o <<reply>>

\* mutant: without the fallback for an edit target that is no longer there
withReply_noFallback(prevMessages, editing, reply) ==
  IF ~Truthy(editing)
  THEN prevMessages \o <<reply>>
  ELSE IF findIndex(prevMessages, editing) # 0
  THEN SubSeq(prevMessages, 1, findIndex(prevMessages, editing)) \o <<reply>>
  ELSE prevMessages

\* the setMessages updater run after the await
withReply(prevMessages, editing, reply) ==
  IF Truthy(editing) /\ findIndex(prevMessages, editing) # 0
  THEN SubSeq(prevMessages, 1, findIndex(prevMessages, editing)) \o <<reply>>
  ELSE prevMessages \o <<reply>>

\* mutant: the flag is reset at the end of the try block, not in a finally
sendSettles_resetInTry ==
  /\ handler # NoHandler
  /\ flowPc = "settled"
  /\ messages' = withReply(messages, handler.editingMessageId,
                           replyMessage(flowResult, randomUUID(nextId)))
  /\ nextId' = nextId + 1
  /\ isLoading' = ~flowResult.ok
  /\ editingMessageId' =
       IF Truthy(handler.editingMessageId) THEN Null ELSE editingMessageId
  /\ selectedFile' = Null
  /\ imagePreview' = Null
  /\ handler' = NoHandler
  /\ inFlightCalls' = inFlightCalls - 1
  /\ flowPc' = "idle"
  /\ UNCHANGED <<inputValue, selectedModel, modelConfig, tempModelConfig,
                 isSettingsModalOpen, imageReaders, uploadReaders,
                 flowInput, generateOptions, flowResult>>

\* handleSendMessage after its await: try or catch, then finally
sendSettles ==
  /\ handler # NoHandler
  /\ flowPc = "settled"
  /\ messages' = withReply(messages, handler.editingMessageId,
                           replyMessage(flowResult, randomUUID(nextId)))
  /\ nextId' = nextId + 1
  /\ isLoading' = FALSE
  /\ editingMessageId' =
       IF Truthy(handler.editingMessageId) THEN Null ELSE editingMessageId
  /\ selectedFile' = Null
  /\ imagePreview' = Null
  /\ handler' = NoHandler
  /\ inFlightCalls' = inFlightCalls - 1
  /\ flowPc' = "idle"
  /\ UNCHANGED <<inputValue, selectedModel, modelConfig, tempModelConfig,
                 isSettingsModalOpen, imageReaders, uploadReaders,
                 flowInput, generateOptions, flowResult>>

\* mutant: the draft text is left as it is
handleClearChat_keepsDraft ==
  /\ PageUsable /\ ~isLoading /\ ~Truthy(editingMessageId)
  /\ IdsFree >= 1
  /\ messages' = <<[id |-> randomUUID(nextId), sender |-> "system",
                    text |-> clearedSystemMessage, imageUrl |-> U]>>
  /\ nextId' = nextId + 1
  /\ selectedFile' = Null
  /\ imagePreview' = Null
  /\ editingMessageId' = Null
  /\ UNCHANGED <<inputValue, selectedModel, isLoading, modelConfig,
                 tempModelConfig, isSettingsModalOpen, imageReaders,
                 uploadReaders, handler, inFlightCalls, flowVars>>

\* handleClearChat (the button is disabled while loading or editing)
handleClearChat ==
  /\ PageUsable /\ ~isLoading /\ ~Truthy(editingMessageId)
  /\ IdsFree >= 1
  /\ messages' = <<[id |-> randomUUID(nextId), sender |-> "system",
                    text |-> clearedSystemMessage, imageUrl |-> U]>>
  /\ nextId' = nextId + 1
  /\ inputValue' = <<>>
  /\ selectedFile' = Null
  /\ imagePreview' = Null
  /\ editingMessageId' = Null
  /\ UNCHANGED <<selectedModel, isLoading, modelConfig, tempModelConfig,
                 isSettingsModalOpen, imageReaders, uploadReaders, handler,
                 inFlightCalls, flowVars>>

\* ------------------------------------------------------ export and import
\* mutant: every falsy imageUrl is left out, null and "" too
stringifyMessage_dropsFalsy(msg) ==
  Obj([id |-> Str(msg.id), sender |-> Str(<<msg.sender>>), text |-> Str(msg.text)]
      @@ (IF ~Truthy(msg.imageUrl) THEN EmptyFcn ELSE [imageUrl |-> msg.imageUrl]))

\* JSON.stringify of one message: a key whose value is undefined is left out
stringifyMessage(msg) ==
  Obj([id |-> Str(msg.id), sender |-> Str(<<msg.sender>>), text |-> Str(msg.text)]
      @@ (IF msg.imageUrl = U THEN EmptyFcn ELSE [imageUrl |-> msg.imageUrl]))

\* JSON.stringify(messages): the exported file's JSON value
stringifyMessages(msgs) == Arr([i \in 1..Len(msgs) |-> stringifyMessage(msgs[i])])

\* the guard of handleDownloadChat
nothingToDownload(msgs) ==
  \/ Len(msgs) = 0
  \/ /\ Len(msgs) = 1
     /\ msgs[1].sender = "system"
     /\ msgs[1].text \in {initialSystemMessage, clearedSystemMessage}

\* the file handleDownloadChat writes for a log, NoFile when it refuses
downloadedFile(msgs) ==
  IF nothingToDownload(msgs) THEN NoFile
  ELSE [type |-> "application/json", content |-> stringifyMessages(msgs)]

\* handleDownloadChat (the button is disabled while loading or editing): a
\* file is written or a toast shown, the component's state stays as it is
handleDownloadChat ==
  /\ PageUsable /\ ~isLoading /\ ~Truthy(editingMessageId)
  /\ UNCHANGED vars

\* a file whose text JSON.parse rejects
Garbage == [t |-> "syntaxerror"]

\* the every() callback of handleFileUpload
isMessageJson(x) ==
  /\ x.t = "object"
  /\ "id" \in DOMAIN x.v /\ x.v.id.t = "string"
  /\ "sender" \in DOMAIN x.v
  /\ x.v.sender \in {Str(<<"user">>), Str(<<"ai">>), Str(<<"system">>)}
  /\ "text" \in DOMAIN x.v /\ x.v.text.t = "string"
  /\ Get(x.v, "imageUrl").t \in {"undefined", "null", "string"}

\* JSON.parse succeeds and the structure test passes
isChatFile(content) ==
  /\ content # Garbage
  /\ content.t = "array"
  /\ \A i \in 1..Len(content.v) : isMessageJson(content.v[i])

\* a parsed element read as a Message
messageOfJson(x) ==
  [id |-> x.v.id.v, sender |-> x.v.sender.v[1], text |-> x.v.text.v,
   imageUrl |-> Get(x.v, "imageUrl")]

\* mutant: a file without a conversation is taken as it is
loadedMessages_asIs(content, id) ==
  LET loaded == [i \in 1..Len(content.v) |-> messageOfJson(content.v[i])]
  IN IF Len(loaded) > 0 /\ ~(Len(loaded) = 1 /\ loaded[1].sender = "system")
     THEN loaded \o <<[id |-> id, sender |-> "system",
                       text |-> loadedSystemMessage, imageUrl |-> U]>>
     ELSE loaded

\* the log that reader.onload sets for an accepted file
loadedMessages(content, id) ==
  LET loaded == [i \in 1..Len(content.v) |-> messageOfJson(content.v[i])]
  IN IF Len(loaded) > 0 /\ ~(Len(loaded) = 1 /\ loaded[1].sender = "system")
     THEN loaded \o <<[id |-> id, sender |-> "system",
                       text |-> loadedSystemMessage, imageUrl |-> U]>>
     ELSE <<[id |-> id, sender |-> "system",
             text |-> clearedSystemMessage, imageUrl |-> U]>>

JsonMessage(id, sender, text) ==
  Obj([id |-> Str(id), sender |-> Str(<<sender>>), text |-> Str(text)])

\* chat files the user has on disk
ChatFiles ==
  {[type |-> "text/plain", content |-> Garbage],
   [type |-> "application/json", content |-> Arr(<<>>)],
   [type |-> "application/json",
    content |-> Arr(<<JsonMessage(<<"f1">>, "system", <<"note">>)>>)],
   [type |-> "application/json",
    content |-> Arr(<<Obj([id |-> Str(<<"f1">>), sender |-> Str(<<"user">>),
                           text |-> Str(<<"a">>),
                           imageUrl |-> Str(<<"data:old">>)]),
                      JsonMessage(<<"f2">>, "ai", <<"b">>)>>)],
   [type |-> "application/json",
    content |-> Arr(<<Obj([id |-> Str(<<"f1">>), sender |-> Str(<<"user">>),
                           text |-> Str(<<"a">>), imageUrl |-> Null]),
                      JsonMessage(<<"f1">>, "user", <<"c">>)>>)],
   [type |-> "application/json",
    content |-> Arr(<<JsonMessage(<<"f1">>, "user", <<"a">>),
                      JsonMessage(<<"f2">>, "bot", <<"b">>)>>)]}

\* handleFileUpload (the upload button is disabled while loading or editing);
\* one read is pending at a time
handleFileUpload ==
  /\ PageUsable /\ ~isLoading /\ ~Truthy(editingMessageId)
  /\ \E file \in ChatFiles :
       IF file.type # "application/json"
       THEN UNCHANGED uploadReaders
       ELSE /\ uploadReaders = {}
            /\ uploadReaders' = uploadReaders \cup {file.content}
  /\ UNCHANGED <<messages, inputValue, selectedModel, isLoading, selectedFile,
                 imagePreview, editingMessageId, modelConfig, tempModelConfig,
                 isSettingsModalOpen, imageReaders, handler, inFlightCalls,
                 nextId, flowVars>>

\* reader.onload of handleFileUpload
uploadReaderOnLoad ==
  /\ \E content \in uploadReaders :
       /\ uploadReaders' = uploadReaders \ {content}
       /\ IF isChatFile(content)
          THEN /\ IdsFree >= 1
               /\ messages' = loadedMessages(content, randomUUID(nextId))
               /\ nextId' = nextId + 1
               /\ editingMessageId' = Null
          ELSE UNCHANGED <<messages, nextId, editingMessageId>>
  /\ UNCHANGED <<inputValue, selectedModel, isLoading, selectedFile,
                 imagePreview, modelConfig, tempModelConfig, isSettingsModalOpen,
                 imageReaders, handler, inFlightCalls, flowVars>>

\* reader.onerror of handleFileUpload
uploadReaderOnError ==
  /\ \E content \in uploadReaders : uploadReaders' = uploadReaders \ {content}
  /\ UNCHANGED <<messages, inputValue, selectedModel, isLoading, selectedFile,
                 imagePreview, editingMessageId, modelConfig, tempModelConfig,
                 isSettingsModalOpen, imageReaders, handler, inFlightCalls,
                 nextId, flowVars>>

\* ------------------------------------------------------ the settings dialog
NaN == [t |-> "NaN"]

Digits == <<"0", "1", "2", "3", "4", "5", "6", "7", "8", "9">>

IsDigit(c) == \E d \in 1..10 : Digits[d] = c

DigitValue(c) == (CHOOSE d \in 1..10 : Digits[d] = c) - 1

\* the value of the longest prefix of digits
RECURSIVE parseDigits(_, _)
parseDigits(s, acc) ==
  IF s # <<>> /\ IsDigit(Head(s))
  THEN parseDigits(Tail(s), 10 * acc + DigitValue(Head(s)))
  ELSE acc

\* parseFloat on a token sequence of digits
parseFloat(s) ==
  IF s # <<>> /\ IsDigit(Head(s)) THEN Num(parseDigits(s, 0)) ELSE NaN

\* what the user types into each settings field: nothing, or a number
ConfigInputs ==
  [maxOutputTokens |-> {<<>>, <<"2", "5", "6">>},
   temperature |-> {<<>>, <<"0">>},
   topP |-> {<<>>, <<"1">>},
   topK |-> {<<>>, <<"4", "0">>}]

\* openSettingsModal (the button is disabled while loading or editing)
openSettingsModal ==
  /\ PageUsable /\ ~isLoading /\ ~Truthy(editingMessageId)
  /\ tempModelConfig' = modelConfig
  /\ isSettingsModalOpen' = TRUE
  /\ UNCHANGED <<messages, inputValue, selectedModel, isLoading, selectedFile,
                 imagePreview, editingMessageId, modelConfig, imageReaders,
                 uploadReaders, handler, inFlightCalls, nextId,
                 flowVars>>

\* mutant: a field writes the saved configuration as well
handleConfigChange_live ==
  /\ isSettingsModalOpen
  /\ \E key \in ConfigKeys : \E value \in ConfigInputs[key] :
       LET numValue == parseFloat(value)
       IN /\ tempModelConfig' =
               [tempModelConfig EXCEPT ![key] = IF numValue = NaN THEN U ELSE numValue]
          /\ modelConfig' = tempModelConfig'
  /\ tempModelConfig' # tempModelConfig
  /\ UNCHANGED <<messages, inputValue, selectedModel, isLoading, selectedFile,
                 imagePreview, editingMessageId,
                 isSettingsModalOpen, imageReaders, uploadReaders, handler,
                 inFlightCalls, nextId, flowVars>>

\* handleConfigChange, from a field of the open dialog
handleConfigChange ==
  /\ isSettingsModalOpen
  /\ \E key \in ConfigKeys : \E value \in ConfigInputs[key] :
       LET numValue == parseFloat(value)
       IN tempModelConfig' =
            [tempModelConfig EXCEPT ![key] = IF numValue = NaN THEN U ELSE numValue]
  /\ tempModelConfig' # tempModelConfig
  /\ UNCHANGED <<messages, inputValue, selectedModel, isLoading, selectedFile,
                 imagePreview, editingMessageId, modelConfig,
                 isSettingsModalOpen, imageReaders, uploadReaders, handler,
                 inFlightCalls, nextId, flowVars>>

\* handleSaveConfig
handleSaveConfig ==
  /\ isSettingsModalOpen
  /\ modelConfig' = tempModelConfig
  /\ isSettingsModalOpen' = FALSE
  /\ UNCHANGED <<messages, inputValue, selectedModel, isLoading, selectedFile,
                 imagePreview, editingMessageId, tempModelConfig, imageReaders,
                 uploadReaders, handler, inFlightCalls, nextId,
                 flowVars>>

\* the Cancel button: the working copy is reset and DialogClose closes
cancelSettings ==
  /\ isSettingsModalOpen
  /\ tempModelConfig' = modelConfig
  /\ isSettingsModalOpen' = FALSE
  /\ UNCHANGED <<messages, inputValue, selectedModel, isLoading, selectedFile,
                 imagePreview, editingMessageId, modelConfig, imageReaders,
                 uploadReaders, handler, inFlightCalls, nextId,
                 flowVars>>

\* the dialog's own close (Escape, overlay, X): onOpenChange(false)
dismissSettings ==
  /\ isSettingsModalOpen
  /\ isSettingsModalOpen' = FALSE
  /\ UNCHANGED <<messages, inputValue, selectedModel, isLoading, selectedFile,
                 imagePreview, editingMessageId, modelConfig, tempModelConfig,
                 imageReaders, uploadReaders, handler, inFlightCalls,
                 nextId, flowVars>>

\* ------------------------------------------------------- the specifications
Init ==
  /\ UiInit
  /\ flowPc = "idle"
  /\ flowInput = NoCall
  /\ generateOptions = NoCall
  /\ flowResult = NoResult

\* the conversation: everything but the settings dialog, whose only effect
\* is the modelConfig field of the request (explored in SettingsSpec)
Next ==
  \/ SetInputValue
  \/ SelectModel
  \/ handleFileChange
  \/ imageReaderOnLoadEnd
  \/ removeImage
  \/ handleInitiateEdit
  \/ cancelEdit
  \/ handleSendMessage
  \/ RunFlow
  \/ ProviderResolve
  \/ ProviderReject
  \/ sendSettles
  \/ handleClearChat
  \/ handleDownloadChat
  \/ handleFileUpload
  \/ uploadReaderOnLoad
  \/ uploadReaderOnError

Spec == Init /\ [][Next]_vars

\* the requests of a conversation in text: sending, editing, clearing and
\* loading, without attachments and with the model left as it is
RequestNext ==
  \/ SetInputValue
  \/ handleInitiateEdit
  \/ cancelEdit
  \/ handleSendMessage
  \/ RunFlow
  \/ ProviderResolve
  \/ ProviderReject
  \/ sendSettles
  \/ handleClearChat
  \/ handleFileUpload
  \/ uploadReaderOnLoad
  \/ uploadReaderOnError

\* those requests with their scheduling: a started flow runs, the provider
\* call settles, and the suspended handler is resumed once it has
FairSpec ==
  /\ Init /\ [][RequestNext]_vars
  /\ WF_vars(RunFlow)
  /\ WF_vars(ProviderResolve \/ ProviderReject)
  /\ WF_vars(sendSettles)

\* the requests made from a loaded conversation: the log is what a load of
\* a bounded chat file leaves, and messages are sent and edited from there
fileId(i) == [j \in 1..i |-> "f"]

\* what a message of the file holds: text, an image alone, neither, by a user;
\* text by the ai or with an image by it; a system notice
LogMessages ==
  {[sender |-> "user", text |-> <<"a">>, imageUrl |-> U],
   [sender |-> "user", text |-> <<" ">>, imageUrl |-> Str(<<"data:old">>)],
   [sender |-> "user", text |-> <<" ">>, imageUrl |-> U],
   [sender |-> "ai", text |-> <<"a", " ">>, imageUrl |-> U],
   [sender |-> "ai", text |-> <<>>, imageUrl |-> U],
   [sender |-> "system", text |-> <<"a">>, imageUrl |-> U]}

LogShapes == SeqsUpTo(LogMessages, MaxLog)

LogOf(shape) ==
  [i \in 1..Len(shape) |->
     [id |-> fileId(i), sender |-> shape[i].sender, text |-> shape[i].text,
      imageUrl |-> shape[i].imageUrl]]

HistoryInit ==
  /\ \E shape \in LogShapes :
       /\ isChatFile(stringifyMessages(LogOf(shape)))
       /\ messages = loadedMessages(stringifyMessages(LogOf(shape)), randomUUID(1))
       /\ Len(messages) > 1
  /\ nextId = 2
  /\ inputValue = <<>>
  /\ selectedModel = "googleai/gemini-1.5-flash-latest"
  /\ isLoading = FALSE
  /\ selectedFile = Null
  /\ imagePreview = Null
  /\ editingMessageId = Null
  /\ modelConfig = EmptyConfig
  /\ tempModelConfig = EmptyConfig
  /\ isSettingsModalOpen = FALSE
  /\ imageReaders = {}
  /\ uploadReaders = {}
  /\ handler = NoHandler
  /\ inFlightCalls = 0
  /\ flowPc = "idle"
  /\ flowInput = NoCall
  /\ generateOptions = NoCall
  /\ flowResult = NoResult

HistoryNext ==
  \/ SetInputValue
  \/ handleInitiateEdit
  \/ cancelEdit
  \/ handleSendMessage
  \/ RunFlow
  \/ ProviderResolve
  \/ ProviderReject
  \/ sendSettles

HistorySpec == HistoryInit /\ [][HistoryNext]_vars

\* the settings dialog and the requests that carry its configuration
SettingsNext ==
  \/ openSettingsModal
  \/ handleConfigChange
  \/ handleSaveConfig
  \/ cancelSettings
  \/ dismissSettings
  \/ SetInputValue
  \/ handleSendMessage
  \/ RunFlow
  \/ ProviderResolve
  \/ ProviderReject
  \/ sendSettles

SettingsSpec == Init /\ [][SettingsNext]_vars

\* ---------------------------------------------- vocabulary of the claims
IsMedia(part) == "media" \in DOMAIN part

IsText(part) == "text" \in DOMAIN part

MediaUrls(parts) == [i \in 1..Len(SelectSeq(parts, IsMedia)) |->
                       SelectSeq(parts, IsMedia)[i].media.url]

TextsOf(parts) == [i \in 1..Len(SelectSeq(parts, IsText)) |->
                     SelectSeq(parts, IsText)[i].text]

Called == generateOptions # NoCall

SentPrompt == generateOptions.prompt

SentMessages ==
  IF "messages" \in DOMAIN generateOptions THEN generateOptions.messages ELSE <<>>

InputTurns == IF flowInput.history.t = "array" THEN flowInput.history.v ELSE <<>>

InputTextOnly == flowInput.model \in TEXT_ONLY_MODELS

HasImage(x) == x.t = "string" /\ Len(x.v) > 0

IsBlank(x) == x.t # "string" \/ \A i \in 1..Len(x.v) : x.v[i] = " "

FlowRan == flowPc \in {"awaiting", "settled"}

ValidFlowInput == RelayUserPromptInputSchema(flowInput)

TurnHasImage(turn) == HasImage(turn.photoDataUri)

TurnHasText(turn) == ~IsBlank(turn.text)

\* C1: a text-only model with a current image and a blank prompt gets the
\* refusal string, and the provider is not called, whatever the history is.
C1_RefusalWithoutCall ==
  (ValidFlowInput /\ InputTextOnly /\ HasImage(flowInput.photoDataUri)
     /\ IsBlank(flowInput.prompt))
  => /\ ~Called
     /\ flowPc # "awaiting"
     /\ FlowRan => flowResult = [ok |-> TRUE, response |-> RefusalResponse]

C1_Witness ==
  /\ flowPc = "settled"
  /\ InputTextOnly /\ HasImage(flowInput.photoDataUri) /\ IsBlank(flowInput.prompt)
  /\ \E i \in 1..Len(InputTurns) :
       TurnHasImage(InputTurns[i]) /\ TurnHasText(InputTurns[i])
  /\ flowResult = [ok |-> TRUE, response |-> RefusalResponse]

\* C2: for a text-only model the options given to ai.generate hold no media
\* part, in the prompt or in any message.
C2_NoMediaForTextOnly ==
  (Called /\ InputTextOnly)
  => /\ MediaUrls(SentPrompt) = <<>>
     /\ \A k \in 1..Len(SentMessages) : MediaUrls(SentMessages[k].content) = <<>>

C2_Witness ==
  /\ Called /\ InputTextOnly
  /\ HasImage(flowInput.photoDataUri)
  /\ \E i \in 1..Len(InputTurns) :
       TurnHasImage(InputTurns[i]) /\ TurnHasText(InputTurns[i])

\* C3: for a model that is not text-only, the current image is exactly one
\* media part of the prompt with the input's url, and each history turn's
\* image is a media part of its message with the same url.
C3_KeptTurn(turn) == TurnHasText(turn) \/ TurnHasImage(turn)

C3_ImagesPreserved ==
  (Called /\ ~InputTextOnly)
  => /\ HasImage(flowInput.photoDataUri)
          => MediaUrls(SentPrompt) = <<flowInput.photoDataUri.v>>
     /\ LET kept == SelectSeq(InputTurns, C3_KeptTurn)
        IN /\ Len(SentMessages) = Len(kept)
           /\ \A k \in 1..Len(kept) :
                MediaUrls(SentMessages[k].content) =
                  IF TurnHasImage(kept[k]) THEN <<kept[k].photoDataUri.v>> ELSE <<>>

C3_Witness ==
  /\ Called /\ ~InputTextOnly
  /\ HasImage(flowInput.photoDataUri) /\ ~IsBlank(flowInput.prompt)
  /\ Len(InputTurns) = 2
  /\ TurnHasImage(InputTurns[1]) /\ ~TurnHasImage(InputTurns[2])
  /\ Len(SentMessages) = 2

\* C4: with no current part left (no image, blank prompt) and every history
\* turn dropped by normalization, the flow returns "Please provide a prompt."
\* and does not call the provider, also when the input history is not empty.
C4_TurnDropped(turn) ==
  ~TurnHasText(turn) /\ (InputTextOnly \/ ~TurnHasImage(turn))

C4_EmptyRequest ==
  (ValidFlowInput /\ ~HasImage(flowInput.photoDataUri) /\ IsBlank(flowInput.prompt)
     /\ \A i \in 1..Len(InputTurns) : C4_TurnDropped(InputTurns[i]))
  => /\ ~Called
     /\ flowPc # "awaiting"
     /\ FlowRan => flowResult = [ok |-> TRUE, response |-> <<"Please provide a prompt.">>]

C4_Witness ==
  /\ flowPc = "settled"
  /\ ~HasImage(flowInput.photoDataUri) /\ IsBlank(flowInput.prompt)
  /\ Len(InputTurns) = 2
  /\ InputTextOnly /\ TurnHasImage(InputTurns[1])
  /\ flowResult = [ok |-> TRUE, response |-> <<"Please provide a prompt.">>]

\* C5 as stated: a turn with blank text and no image never appears, every
\* other turn appears once with its role and trimmed text, in input order.
C5_MessagesAre(kept) ==
  /\ Len(SentMessages) = Len(kept)
  /\ \A k \in 1..Len(kept) :
       /\ SentMessages[k].role = kept[k].role
       /\ TextsOf(SentMessages[k].content) =
            IF TurnHasText(kept[k]) THEN <<Trim(kept[k].text.v)>> ELSE <<>>

C5_Original == Called => C5_MessagesAre(SelectSeq(InputTurns, C3_KeptTurn))

\* C5 as amended: for a text-only model a turn's image does not keep it; a
\* turn appears iff it has non-blank text, or an image and the model is not
\* text-only; the kept turns appear once, with role and trimmed text, in order.
C5_KeptTurn(turn) == TurnHasText(turn) \/ (TurnHasImage(turn) /\ ~InputTextOnly)

C5_Amended == Called => C5_MessagesAre(SelectSeq(InputTurns, C5_KeptTurn))

C5_Witness ==
  /\ Called
  /\ Len(InputTurns) = 2
  /\ InputTurns[1].text = Str(<<"a", " ">>) /\ InputTurns[1].role = "model"
  /\ ~C5_KeptTurn(InputTurns[2]) /\ TurnHasImage(InputTurns[2])
  /\ Len(SentMessages) = 1

\* C6: the current turn's text part is "Describe this image." when the
\* trimmed prompt is empty and an image is left after the text-only filter;
\* otherwise it is the trimmed prompt, and there is none when that is empty.
C6_CurrentText ==
  Called =>
    TextsOf(SentPrompt) =
      IF IsBlank(flowInput.prompt)
      THEN IF HasImage(flowInput.photoDataUri) /\ ~InputTextOnly
           THEN <<(<<"Describe this image.">>)>>
           ELSE <<>>
      ELSE <<Trim(flowInput.prompt.v)>>

C6_Witness ==
  /\ Called
  /\ IsBlank(flowInput.prompt) /\ HasImage(flowInput.photoDataUri)
  /\ TextsOf(SentPrompt) = <<(<<"Describe this image.">>)>>

\* C7 as stated: each sampling field set in the saved configuration at
\* submission is in the config of the provider call, with its value, and the
\* fields not set are absent from it.
C7_ConfigForwarded ==
  (handler # NoHandler /\ Called)
  => \A k \in ConfigKeys :
       IF handler.modelConfig[k] # U
       THEN /\ "config" \in DOMAIN generateOptions
            /\ k \in DOMAIN generateOptions.config
            /\ generateOptions.config[k] = handler.modelConfig[k]
       ELSE ~("config" \in DOMAIN generateOptions
              /\ k \in DOMAIN generateOptions.config)

\* C8 as stated: submitting an edit of the message at index i cuts the log to
\* i messages and puts the edited message at i; when the request settles one
\* ai or system message is appended and the log has i + 2 messages; from the
\* submission on, no message that followed index i is in the log.
EditRunning == handler # NoHandler /\ Truthy(handler.editingMessageId)

\* the edit target's place in the log the handler was called with (1-based)
EditPlace == findIndex(handler.messages, handler.editingMessageId)

Dropped ==
  {handler.messages[j] : j \in (EditPlace + 1)..Len(handler.messages)}

InLog(msgs) == {msgs[j] : j \in 1..Len(msgs)}

C8_EditSubmitted ==
  (handler = NoHandler /\ handler' # NoHandler /\ Truthy(handler'.editingMessageId))
  => LET i == findIndex(messages, editingMessageId)
     IN /\ Len(messages') = i
        /\ SubSeq(messages', 1, i - 1) = SubSeq(messages, 1, i - 1)
        /\ messages'[i] = [messages[i] EXCEPT
                             !.text = Trim(inputValue),
                             !.imageUrl = IF HasImage(imagePreview)
                                          THEN imagePreview ELSE U]

C8_EditSettled ==
  (EditRunning /\ handler' = NoHandler)
  => /\ Len(messages') = EditPlace + 1
     /\ SubSeq(messages', 1, EditPlace) = SubSeq(messages, 1, EditPlace)
     /\ messages'[EditPlace + 1].sender \in {"ai", "system"}

C8_NothingReappears ==
  EditRunning
  => /\ Len(messages) = EditPlace
     /\ SubSeq(messages, 1, EditPlace - 1) = SubSeq(handler.messages, 1, EditPlace - 1)
     /\ InLog(messages') \cap Dropped = {}

C8_EditAndResend ==
  [][C8_EditSubmitted /\ C8_EditSettled /\ C8_NothingReappears]_vars

\* C9: for every log handleDownloadChat exports, loading the exported file
\* sets the log to the same messages in the same order, followed only by the
\* "Chat history loaded" notice.
C9_RoundTrip ==
  ~nothingToDownload(messages)
  => LET file == downloadedFile(messages)
     IN /\ file.type = "application/json"
        /\ isChatFile(file.content)
        /\ loadedMessages(file.content, randomUUID(nextId)) =
             messages \o <<[id |-> randomUUID(nextId), sender |-> "system",
                            text |-> loadedSystemMessage, imageUrl |-> U]>>

C9_Witness ==
  /\ ~nothingToDownload(messages)
  /\ ~isLoading
  /\ \E j \in 1..Len(messages) : HasImage(messages[j].imageUrl)
  /\ \E j \in 1..Len(messages) :
       messages[j].sender = "ai" /\ messages[j].imageUrl = U
  /\ messages[Len(messages) - 1].text = loadedSystemMessage

\* C10 as stated: a file is accepted only if it is an array whose elements
\* all have a string id, a sender among user, ai and system, a string text and
\* an absent or string imageUrl; a rejected file leaves the log and the edit
\* target as they were.
C10_Element(x) ==
  /\ x.t = "object"
  /\ "id" \in DOMAIN x.v /\ x.v.id.t = "string"
  /\ "sender" \in DOMAIN x.v
  /\ \E who \in {"user", "ai", "system"} : x.v.sender = Str(<<who>>)
  /\ "text" \in DOMAIN x.v /\ x.v.text.t = "string"
  /\ ("imageUrl" \in DOMAIN x.v => x.v.imageUrl.t = "string")

C10_WellShaped(content) ==
  /\ content # Garbage
  /\ content.t = "array"
  /\ \A j \in 1..Len(content.v) : C10_Element(content.v[j])

C10_ReadEnds == uploadReaders # {} /\ uploadReaders' = {}

C10_Accepted == messages' # messages

C10_ImportAllOrNothing ==
  [][C10_ReadEnds =>
       \A content \in uploadReaders :
         /\ C10_Accepted => C10_WellShaped(content)
         /\ ~C10_WellShaped(content) =>
              /\ messages' = messages
              /\ editingMessageId' = editingMessageId]_vars

\* C11: at most one relayUserPrompt call is in flight; a call is in flight
\* exactly while a handleSendMessage activation is suspended, the in-flight
\* flag is set throughout, and a call starts only when none is in flight.
C11_SingleRequest ==
  [][/\ inFlightCalls' <= 1
     /\ (inFlightCalls' = 1) = (handler' # NoHandler)
     /\ handler' # NoHandler => isLoading'
     /\ inFlightCalls' > inFlightCalls =>
          inFlightCalls = 0 /\ handler = NoHandler /\ flowPc = "idle"]_vars

\* a call is awaiting the provider while the form again holds something to
\* send: the pencil was clicked in flight and a chat file is still being read
C11_Witness ==
  /\ inFlightCalls = 1
  /\ flowPc = "awaiting"
  /\ Truthy(editingMessageId)
  /\ Trim(inputValue) # <<>>
  /\ uploadReaders # {}

\* C12: an accepted submission adds no reply when it starts and exactly one
\* ai or system message, with a fresh id, when it settles; a submission
\* starts only when the one before it has settled.
IsReply(msg) == msg.sender \in {"ai", "system"}

Submits == handler = NoHandler /\ handler' # NoHandler

Settles == handler # NoHandler /\ handler' = NoHandler

C12_OneReply ==
  [][/\ Submits =>
          {m \in InLog(messages') : IsReply(m)} \subseteq InLog(messages)
     /\ Settles =>
          LET n == Len(messages')
          IN /\ n >= 1
             /\ IsReply(messages'[n])
             /\ \A m \in InLog(messages) : m.id # messages'[n].id
             /\ \E k \in 0..Len(messages) :
                  SubSeq(messages', 1, n - 1) = SubSeq(messages, 1, k)
     /\ handler' # handler => Submits \/ Settles]_vars

\* both kinds of submission have settled: the reply of an edit follows the
\* reply of a new message
C12_Witness ==
  /\ handler = NoHandler
  /\ Len(messages) >= 3
  /\ \E j \in 1..(Len(messages) - 1) :
       /\ messages[j].sender = "user"
       /\ messages[j].id = randomUUID(1)
       /\ messages[j + 1].id = randomUUID(3)
       /\ IsReply(messages[j + 1])

\* C13 as stated: while a request is in flight (from the submission to its
\* settling) only the request's handler changes the log; no clear and no
\* load, whenever its file read was started, changes it in between.
C13_OnlyHandlerWrites ==
  [][(handler # NoHandler /\ messages' # messages) => Settles]_vars

\* the user message of the request in flight: the edited message, or the new
\* one, holding the prompt and the image that were sent
SubmittedMessage(m) ==
  /\ m.sender = "user"
  /\ m.text = flowInput.prompt.v
  /\ m.imageUrl = flowInput.photoDataUri
  /\ IF Truthy(handler.editingMessageId)
     THEN Str(m.id) = handler.editingMessageId
     ELSE \A old \in InLog(handler.messages) : old.id # m.id

\* C14 as stated: when the call throws, the log gets exactly one more
\* message, a system message whose text carries the error's message; no ai
\* message is added, and the user message of the request is still in the log.
C14_ErrorReply ==
  [][(Settles /\ ~flowResult.ok) =>
       LET n == Len(messages')
       IN /\ n >= 2
          /\ messages'[n].sender = "system"
          /\ messages'[n].text = <<"Error: ">> \o flowResult.message
          /\ \E k \in 0..Len(messages) :
               SubSeq(messages', 1, n - 1) = SubSeq(messages, 1, k)
          /\ {m \in InLog(messages') : m.sender = "ai"} \subseteq InLog(messages)
          /\ \E m \in InLog(messages') : SubmittedMessage(m)]_vars

\* C15 as stated: when the call returns a response, a provider text or a
\* canned short-circuit text alike, the log ends with the user message of the
\* request directly followed by one new ai message holding the response.
C15_AiReply ==
  [][(Settles /\ flowResult.ok) =>
       LET n == Len(messages')
       IN /\ n >= 2
          /\ messages'[n].sender = "ai"
          /\ messages'[n].text = flowResult.response
          /\ \A m \in InLog(messages) : m.id # messages'[n].id
          /\ SubmittedMessage(messages'[n - 1])
          /\ \E k \in 0..Len(messages) :
               SubSeq(messages', 1, n - 1) = SubSeq(messages, 1, k)]_vars

\* C16 as stated: on every step that is not part of an edit-and-resend, the
\* log before the step is a prefix of the log after it.
IsPrefix(a, b) == Len(a) <= Len(b) /\ SubSeq(b, 1, Len(a)) = a

\* the two steps of an edit-and-resend: its submission and its settling
EditStep ==
  \/ Submits /\ Truthy(handler'.editingMessageId)
  \/ Settles /\ Truthy(handler.editingMessageId)

C16_Original == [][~EditStep => IsPrefix(messages, messages')]_vars

\* handleClearChat's step: the log becomes the single "Chat cleared" notice
ClearStep ==
  /\ messages' = <<[id |-> randomUUID(nextId), sender |-> "system",
                    text |-> clearedSystemMessage, imageUrl |-> U]>>
  /\ nextId' = nextId + 1
  /\ uploadReaders' = uploadReaders
  /\ handler' = handler

\* the step that ends a chat file's read
LoadStep == uploadReaders # {} /\ uploadReaders' = {}

\* C16 amended: on every step that is not part of an edit-and-resend, a clear
\* or a load, the log before the step is a prefix of the log after it.
C16_Amended ==
  [][~(EditStep \/ ClearStep \/ LoadStep) => IsPrefix(messages, messages')]_vars

\* a new message and its reply were appended to the initial log
C16_Witness ==
  /\ handler = NoHandler
  /\ Len(messages) = 3
  /\ messages[1].text = initialSystemMessage
  /\ messages[2].sender = "user"
  /\ messages[3].sender = "ai"

\* C17: a request goes Idle, Sending, Success or Failed, Idle; the in-flight
\* flag is true exactly from the submission until the handler has resumed
\* after the settling, which resets it; and, the provider call settling, a
\* controller that is sending is eventually idle again.
Phase ==
  IF handler = NoHandler THEN "Idle"
  ELSE IF flowPc # "settled" THEN "Sending"
  ELSE IF flowResult.ok THEN "Success" ELSE "Failed"

PhaseSteps ==
  {<<"Idle", "Idle">>, <<"Idle", "Sending">>, <<"Sending", "Sending">>,
   <<"Sending", "Success">>, <<"Sending", "Failed">>,
   <<"Success", "Success">>, <<"Failed", "Failed">>,
   <<"Success", "Idle">>, <<"Failed", "Idle">>}

PhaseStep == (<<Phase, Phase'>>) \in PhaseSteps

C17_Lifecycle ==
  /\ [][PhaseStep]_vars
  /\ [][(Phase' = "Idle") = (~isLoading')]_vars
  /\ [][Settles => (~isLoading')]_vars
  /\ (isLoading ~> ~isLoading)

\* a failed request is back at Idle with its error message in the log
C17_Witness ==
  /\ Phase = "Idle"
  /\ ~isLoading
  /\ flowResult # NoResult
  /\ ~flowResult.ok
  /\ messages[Len(messages)].sender = "system"
  /\ messages[Len(messages)].text = <<"Error: ">> \o flowResult.message

\* C18: the history of a request is taken from the log before the current
\* user message (for an edit: before the edit target): in log order, one turn
\* for each user or ai message there that has text or an image, user as role
\* user and ai as role model, and no turn for anything else.
HistoryMessage(msg) ==
  /\ msg.sender \in {"user", "ai"}
  /\ ~IsBlank(Str(msg.text)) \/ HasImage(msg.imageUrl)

TurnOfMessage(turn, msg) ==
  /\ turn.role = (IF msg.sender = "user" THEN "user" ELSE "model")
  /\ turn.photoDataUri = msg.imageUrl
  /\ IF IsBlank(Str(msg.text)) THEN turn.text = U
     ELSE turn.text = Str(Trim(msg.text))

LogBefore ==
  IF Truthy(editingMessageId)
  THEN SubSeq(messages, 1, findIndex(messages, editingMessageId) - 1)
  ELSE messages

C18_History ==
  [][Submits =>
       LET pre == LogBefore
           kept == {j \in 1..Len(pre) : HistoryMessage(pre[j])}
           history == flowInput'.history.v
       IN /\ Len(history) = Cardinality(kept)
          /\ \E f \in [1..Len(history) -> kept] :
               /\ \A a, b \in 1..Len(history) : a < b => f[a] < f[b]
               /\ \A a \in 1..Len(history) : TurnOfMessage(history[a], pre[f[a]])]_vars

\* an edit in flight whose target had a user turn and a system message
\* before it and a message after it; the history is the one turn
C18_Witness ==
  /\ handler # NoHandler
  /\ Truthy(handler.editingMessageId)
  /\ EditPlace = 3
  /\ Len(handler.messages) > 3
  /\ handler.messages[1].sender = "system"
  /\ handler.messages[2].sender = "user"
  /\ Len(flowInput.history.v) = 1

\* C19: a provider result without text makes relayUserPrompt fail, and the
\* controller's reply is then a system message; every call settles once, with
\* a response or with an error, and its result stands until the next call.
ProviderGaveNoText(result) ==
  "text" \in DOMAIN result /\ ~IsString(result.text)

SettledAs(result) ==
  /\ result # NoResult
  /\ IF result.ok
     THEN "response" \in DOMAIN result /\ "message" \notin DOMAIN result
     ELSE "message" \in DOMAIN result /\ "response" \notin DOMAIN result

C19_MissingText ==
  (flowPc' = "settled" /\ ProviderGaveNoText(flowResult'))
  => ~flowResult'.ok /\ flowResult'.message = SchemaError

C19_SettlesOnce ==
  /\ (flowPc # "settled" /\ flowPc' = "settled")
       => flowResult = NoResult /\ SettledAs(flowResult')
  /\ (flowResult # NoResult /\ flowResult' # flowResult)
       => Submits /\ flowResult' = NoResult
  /\ (flowPc = "settled" /\ flowPc' # "settled") => Settles

C19_ErrorShown ==
  (Settles /\ ProviderGaveNoText(flowResult))
  => /\ messages'[Len(messages')].sender = "system"
     /\ messages'[Len(messages')].text = <<"Error: ">> \o SchemaError

C19_FlowSettles ==
  [][C19_MissingText /\ C19_SettlesOnce /\ C19_ErrorShown]_vars

\* the provider answered without text and the log ends with the error
C19_Witness ==
  /\ handler = NoHandler
  /\ ProviderGaveNoText(flowResult)
  /\ ~flowResult.ok
  /\ generateOptions # NoCall
  /\ messages[Len(messages)].sender = "system"
  /\ messages[Len(messages)].text = <<"Error: ">> \o SchemaError

\* C20 as stated: in every reachable state the messages of the log have
\* pairwise distinct ids, so the edit target's id names exactly one message.
C20_DistinctIds ==
  \A i, j \in 1..Len(messages) : messages[i].id = messages[j].id => i = j

\* C21: for a text-only model the history is compacted and never refused:
\* the messages sent are the turns with non-blank text, each with its role and
\* its trimmed text as its only part, in order (a turn with an image alone is
\* dropped); the refusal is returned only when the current turn has an image
\* and a blank prompt.
Refused ==
  /\ flowPc = "settled"
  /\ ~Called
  /\ flowResult = [ok |-> TRUE, response |-> RefusalResponse]

C21_HistoryCompacted ==
  (ValidFlowInput /\ InputTextOnly /\ FlowRan)
  => /\ Refused = (HasImage(flowInput.photoDataUri) /\ IsBlank(flowInput.prompt))
     /\ Called =>
          LET kept == SelectSeq(InputTurns, TurnHasText)
          IN /\ Len(SentMessages) = Len(kept)
             /\ \A k \in 1..Len(kept) :
                  SentMessages[k] =
                    [role |-> kept[k].role,
                     content |-> <<[text |-> Trim(kept[k].text.v)]>>]

\* a text-only model is called with a history of an image-only turn, which is
\* dropped, and a turn with text and image, which is kept as text
C21_Witness ==
  /\ Called /\ InputTextOnly
  /\ IsBlank(flowInput.prompt) /\ ~HasImage(flowInput.photoDataUri)
  /\ Len(InputTurns) = 2
  /\ TurnHasImage(InputTurns[1]) /\ ~TurnHasText(InputTurns[1])
  /\ TurnHasImage(InputTurns[2]) /\ TurnHasText(InputTurns[2])
  /\ Len(SentMessages) = 1

\* C22: the submission of an edit replaces only the content of its target,
\* the first message with the target's id: the message there keeps its id and
\* the sender user, takes the draft's trimmed text and image, and the
\* messages before it stay as they were; the edit target is always a message
\* whose sender is user.
FirstWithId(msgs, i, id) ==
  /\ Str(msgs[i].id) = id
  /\ \A j \in 1..(i - 1) : Str(msgs[j].id) # id

C22_EditFrame ==
  [][/\ (Submits /\ Truthy(handler'.editingMessageId)) =>
          \E i \in 1..Len(messages) :
            /\ FirstWithId(messages, i, editingMessageId)
            /\ messages[i].sender = "user"
            /\ Len(messages') = i
            /\ messages'[i] =
                 [id |-> messages[i].id, sender |-> "user",
                  text |-> Trim(inputValue),
                  imageUrl |-> IF HasImage(imagePreview) THEN imagePreview ELSE U]
            /\ \A j \in 1..(i - 1) : messages'[j] = messages[j]
     /\ Truthy(editingMessageId') =>
          \E i \in 1..Len(messages') :
            /\ FirstWithId(messages', i, editingMessageId')
            /\ messages'[i].sender = "user"]_vars

\* an edit in flight that changed the text and the image of a message that
\* was not the first of the log
C22_Witness ==
  /\ EditRunning
  /\ EditPlace >= 2
  /\ Len(messages) = EditPlace
  /\ messages[EditPlace].text # handler.messages[EditPlace].text
  /\ messages[EditPlace].imageUrl # handler.messages[EditPlace].imageUrl
  /\ Len(handler.messages) > EditPlace

\* C23 as stated: while a request is in flight the draft text, the attached
\* image and file, and the edit target keep the values the handler left; no
\* edit is initiated before the request settles.
C23_DraftFrozen ==
  [][(handler # NoHandler /\ ~Settles) =>
       /\ inputValue' = inputValue
       /\ imagePreview' = imagePreview
       /\ selectedFile' = selectedFile
       /\ editingMessageId' = editingMessageId]_vars

\* C24 as stated: a submission accepted while an image file is selected puts
\* that file's data URI into the user message and into the request, also when
\* the file's read has not completed.
C24_SelectedImageSent ==
  [][(Submits /\ Truthy(selectedFile)) =>
       /\ messages'[Len(messages')].sender = "user"
       /\ messages'[Len(messages')].imageUrl = Str(selectedFile.dataUri)
       /\ flowInput'.photoDataUri = Str(selectedFile.dataUri)]_vars

\* C25 as stated: the user message a submission puts into the log, new or
\* edited, has non-empty trimmed text or an image; with a draft that has
\* neither, no submission is accepted.
C25_NoEmptyMessage ==
  [][/\ Submits =>
          /\ messages'[Len(messages')].sender = "user"
          /\ \/ Trim(messages'[Len(messages')].text) # <<>>
             \/ HasImage(messages'[Len(messages')].imageUrl)
     /\ (Trim(inputValue) = <<>> /\ ~HasImage(imagePreview)) => ~Submits]_vars

\* C26: every ai.generate call has a prompt with at least one part or at
\* least one message; the messages key is in the options only when some
\* history turn is left by the normalization, and then the list is not empty.
C26_CallHasContent ==
  Called
  => /\ Len(SentPrompt) > 0 \/ Len(SentMessages) > 0
     /\ "messages" \in DOMAIN generateOptions
          => /\ Len(generateOptions.messages) > 0
             /\ \E i \in 1..Len(InputTurns) : C5_KeptTurn(InputTurns[i])

\* a call with no current part, made for its history alone; and one whose
\* history turns were all dropped is made without the messages key
C26_Witness ==
  /\ Called
  /\ \/ /\ Len(SentPrompt) = 0
        /\ "messages" \in DOMAIN generateOptions
        /\ Len(InputTurns) = 2
        /\ Len(generateOptions.messages) = 1
     \/ /\ Len(InputTurns) = 2
        /\ "messages" \notin DOMAIN generateOptions
        /\ InputTextOnly

\* C27: the message log always holds at least one message; an accepted
\* load of an empty array or of a single system message leaves the single
\* "Chat cleared" notice.
C27_LogNeverEmpty ==
  /\ [](Len(messages) >= 1)
  /\ [][(/\ LoadStep
         /\ nextId' # nextId
         /\ \E content \in uploadReaders :
              \/ Len(content.v) = 0
              \/ Len(content.v) = 1 /\ content.v[1].v.sender = Str(<<"system">>))
        => /\ Len(messages') = 1
           /\ messages'[1].sender = "system"
           /\ messages'[1].text = clearedSystemMessage]_vars

\* the log is the single "Chat cleared" notice under the first id drawn,
\* with no read pending and text in the draft
C27_Witness ==
  /\ Len(messages) = 1
  /\ messages[1].text = clearedSystemMessage
  /\ messages[1].id = randomUUID(1)
  /\ uploadReaders = {}
  /\ inputValue # <<>>

\* the step of cancelEdit: edit mode is left by neither a settling request,
\* nor a load, nor a clear
CancelStep ==
  /\ Truthy(editingMessageId) /\ editingMessageId' = Null
  /\ ~Settles /\ ~LoadStep

\* C28 as stated: when a request settles, the selected file and the attached
\* image are cleared, the draft text is empty and, after an edit, the
\* controller is out of edit mode; cancelEdit leaves the same draft and keeps
\* the log.
C28_DraftReset ==
  [][/\ Settles
          => /\ selectedFile' = Null
             /\ imagePreview' = Null
             /\ inputValue' = <<>>
             /\ Truthy(handler.editingMessageId) => editingMessageId' = Null
     /\ CancelStep
          => /\ selectedFile' = Null
             /\ imagePreview' = Null
             /\ inputValue' = <<>>
             /\ messages' = messages]_vars

\* the value a request's input carries for a sampling field
SentConfig(input, k) ==
  IF input.modelConfig.t = "object" /\ k \in DOMAIN input.modelConfig.v
  THEN input.modelConfig.v[k] ELSE U

\* the Save button's step: the dialog closes with the working copy committed
SaveStep ==
  isSettingsModalOpen /\ ~isSettingsModalOpen' /\ modelConfig' = tempModelConfig

\* C29: the saved configuration changes only with Save, so closing the
\* dialog any other way leaves it as it was; a request carries each field
\* the saved configuration has set, with its value, and no other field;
\* opening the dialog shows the saved values.
C29_SavedConfig ==
  [][/\ modelConfig' # modelConfig => SaveStep
     /\ Submits => \A k \in ConfigKeys :
                     SentConfig(flowInput', k) = modelConfig[k]
     /\ (~isSettingsModalOpen /\ isSettingsModalOpen')
          => tempModelConfig' = modelConfig]_vars

\* a request in flight carries the saved value of a field after the dialog
\* was closed on a different value typed into it
C29_Witness ==
  /\ handler # NoHandler
  /\ ~isSettingsModalOpen
  /\ modelConfig.maxOutputTokens = Num(256)
  /\ tempModelConfig.maxOutputTokens = U
  /\ tempModelConfig.topK # modelConfig.topK
  /\ SentConfig(flowInput, "maxOutputTokens") = Num(256)
  /\ SentConfig(flowInput, "topK") = modelConfig.topK

\* the step of the Clear chat button: an id is drawn by neither a handler
\* nor a file's read
ClearChatStep ==
  nextId' # nextId /\ handler' = handler /\ uploadReaders' = uploadReaders

\* the log is one system message with the "Chat cleared" text
ClearedLog(msgs) ==
  /\ Len(msgs) = 1
  /\ msgs[1].sender = "system"
  /\ msgs[1].text = clearedSystemMessage
  /\ msgs[1].imageUrl = U

\* C30: Clear chat leaves the log as exactly one "Chat cleared" system
\* message, an empty draft text, no attached image and no edit target; a
\* request submitted from that log is sent with an empty history.
C30_ClearResets ==
  [][/\ ClearChatStep
          => /\ ClearedLog(messages')
             /\ inputValue' = <<>>
             /\ imagePreview' = Null
             /\ selectedFile' = Null
             /\ editingMessageId' = Null
     /\ (Submits /\ ClearedLog(messages))
          => flowInput'.history = Arr(<<>>)]_vars

\* the first request after a clear is in flight: the log
\* is the cleared notice and the new user message, the history is empty
C30_Witness ==
  /\ handler # NoHandler
  /\ Len(messages) = 2
  /\ ClearedLog(<<messages[1]>>)
  /\ messages[2].sender = "user"
  /\ flowInput.history = Arr(<<>>)

====
